---- MODULE Spec2Model ----
(***************************************************************************)
(* Z-score threshold sweep of src/Z-score.py.                               *)
(*                                                                          *)
(* State: the data frame df (built once, lines 11-27), the module-level     *)
(* list export_results (line 29) and what the last call displayed.          *)
(* Operations: analyze_thresholds (lines 35-107) and export_csv_callback    *)
(* (lines 112-121).                                                         *)
(*                                                                          *)
(* Numbers.  CPU values are integers.  A threshold is carried in tenths     *)
(* (the step of line 41 is 0.1): 5 stands for the element of np.arange that *)
(* is 0.5 up to rounding.  The binary64 rounding of np.arange enters        *)
(* through the length it computes, ceil((stop - start) / step), see         *)
(* arange_rounds_up.  A Z-score is carried exactly, as a sign and the       *)
(* fraction sqnum / sqden = Z^2, or as one of the IEEE values inf and nan   *)
(* that a division by a zero std produces.                                  *)
(***************************************************************************)
EXTENDS Integers, Sequences, FiniteSets

\* ------------------------------------------------------------------ bounds
NumOutliers == 2
NegThreshold == 1
MaxThreshold == 2
MaxTarget == 1

\* The lists of lines 11-13 are drawn from these.  Set A <<0, 10, 20>> has
\* mean 10 and std 10, so that a Set B value v has Z = (v - 10) / 10, on the
\* grid of the thresholds; <<12, 12, 12>> has std 0.
ASets == {<<0, 10, 20>>, <<12, 12, 12>>}
BNormalSets == {<<12>>}
BValues == {9, 12}

\* Thresholds are multiples of the step 0.1 of line 41: k stands for k / 10.
ThresholdScale == 10

ThresholdInputs == (0 - NegThreshold)..MaxThreshold
TargetInputs == 0..MaxTarget

VARIABLES df, export_results, out, last_sweep

vars == <<df, export_results, out, last_sweep>>

\* ------------------------------------------------------------ arithmetic
Abs(x) == IF x < 0 THEN 0 - x ELSE x

Sign(x) == IF x < 0 THEN 0 - 1 ELSE IF x > 0 THEN 1 ELSE 0

RECURSIVE SeqSum(_)
SeqSum(s) == IF s = <<>> THEN 0 ELSE Head(s) + SeqSum(Tail(s))

Squares(s) == [i \in 1..Len(s) |-> s[i] * s[i]]

\* --------------------------------------------------------------- dataset
\* lines 14-22: Set B is the normal values followed by the outliers; one row
\* per value with its set, its ground-truth label and its name.
set_b_values(set_b_normal, set_b_outliers) == set_b_normal \o set_b_outliers

data(set_a_values, set_b_normal, set_b_outliers) ==
    LET b == set_b_values(set_b_normal, set_b_outliers)
        na == Len(set_a_values)
    IN  [i \in 1..(na + Len(b)) |->
            IF i <= na
            THEN [CPU |-> set_a_values[i], Set |-> "A", IsTrueOutlier |-> FALSE,
                  Label |-> <<"A", i>>]
            ELSE [CPU |-> b[i - na], Set |-> "B",
                  IsTrueOutlier |-> (i - na > Len(set_b_normal)),
                  Label |-> <<"B", i - na>>]]

CPUOfSetA(d) ==
    LET a == SelectSeq(d, LAMBDA r : r.Set = "A")
    IN  [i \in 1..Len(a) |-> a[i].CPU]

\* line 25: the mean of Set A, as the fraction num / den (nan when den = 0).
mean(d) == [num |-> SeqSum(CPUOfSetA(d)), den |-> Len(CPUOfSetA(d))]

\* line 26: pandas' std(), the sample standard deviation (ddof = 1), as its
\* square sqnum / sqden; nan for fewer than two values.
std(d) ==
    LET a == CPUOfSetA(d)
        n == Len(a)
    IN  [nan |-> n < 2,
         sqnum |-> n * SeqSum(Squares(a)) - SeqSum(a) * SeqSum(a),
         sqden |-> n * (n - 1)]

\* line 27: (CPU - mean) / std in IEEE arithmetic: x / 0 is +-inf for x # 0
\* and nan for x = 0; nothing is raised.
z_score(cpu, m, s) ==
    LET dev == cpu * m.den - m.num
    IN  IF m.den = 0 \/ s.nan
        THEN [kind |-> "nan", sign |-> 0, sqnum |-> 0, sqden |-> 1]
        ELSE IF s.sqnum = 0
        THEN IF dev = 0
             THEN [kind |-> "nan", sign |-> 0, sqnum |-> 0, sqden |-> 1]
             ELSE [kind |-> "inf", sign |-> Sign(dev), sqnum |-> 0, sqden |-> 1]
        ELSE [kind |-> "finite", sign |-> Sign(dev),
              sqnum |-> dev * dev * s.sqden,
              sqden |-> m.den * m.den * s.sqnum]

with_z_score(d) ==
    [i \in 1..Len(d) |->
        [CPU |-> d[i].CPU, Set |-> d[i].Set, IsTrueOutlier |-> d[i].IsTrueOutlier,
         Label |-> d[i].Label, ZScore |-> z_score(d[i].CPU, mean(d), std(d))]]

\* np.abs(z) > threshold and np.abs(z) <= threshold (lines 46, 49, 80, 81):
\* both are False for nan.
abs_gt_or_equal(z, threshold) ==
    CASE z.kind = "nan" -> FALSE
      [] z.kind = "inf" -> TRUE
      [] OTHER -> \/ threshold < 0
                  \/ ThresholdScale * ThresholdScale * z.sqnum
                        >= threshold * threshold * z.sqden

abs_lt(z, threshold) ==
    CASE z.kind = "nan" -> FALSE
      [] z.kind = "inf" -> FALSE
      [] OTHER -> /\ threshold >= 0
                  /\ ThresholdScale * ThresholdScale * z.sqnum
                        < threshold * threshold * z.sqden

abs_gt(z, threshold) ==
    CASE z.kind = "nan" -> FALSE
      [] z.kind = "inf" -> TRUE
      [] OTHER -> \/ threshold < 0
                  \/ ThresholdScale * ThresholdScale * z.sqnum
                        > threshold * threshold * z.sqden

abs_le(z, threshold) ==
    CASE z.kind = "nan" -> FALSE
      [] z.kind = "inf" -> FALSE
      [] OTHER -> /\ threshold >= 0
                  /\ ThresholdScale * ThresholdScale * z.sqnum
                        <= threshold * threshold * z.sqden

\* -------------------------------------------------------------- np.arange
\* line 41: np.arange(threshold_min, threshold_max + 0.1, 0.1) has
\* ceil(((threshold_max + 0.1) - threshold_min) / 0.1) elements in binary64.
\* The quotient of the doubles is the integer b - a + 1 or just above it; the
\* pairs (a, b) of tenths where it is above, so that the ceiling is
\* b - a + 2, are listed here for -0.5 <= a <= b <= 3.0 (the sliders of
\* lines 130-131 end at 3.0); ThresholdInputs stays within that range.
arange_rounds_up(a, b) ==
    b \in CASE a = -5 -> {-3, 18}
            [] a = -4 -> {-3, -2, 1}
            [] a = -3 -> {2, 11}
            [] a = -2 -> {0, 3, 21, 22, 26, 27}
            [] a = -1 -> {1, 10, 11, 13, 22, 27}
            [] a = 0 -> {2, 11}
            [] a = 1 -> {2, 3}
            [] a = 2 -> {2, 11, 13, 16}
            [] a = 3 -> {3, 8, 22, 26, 27}
            [] a = 4 -> {11, 15, 16, 22, 27}
            [] a = 5 -> {10, 11, 16}
            [] a = 6 -> {8, 10, 11, 13, 17, 18}
            [] a = 7 -> {8, 9, 10, 11, 12, 13, 16, 18, 21, 22, 27, 30}
            [] a = 8 -> {10, 11, 13, 22}
            [] a = 9 -> {10, 11, 13, 16, 20, 21, 22, 27}
            [] a = 10 -> {10, 11, 12, 13, 15, 16, 21, 22}
            [] a = 11 -> {11, 13, 16, 22}
            [] a = 12 -> {12, 13, 14, 15, 16, 17, 18, 21, 22, 26, 27}
            [] a = 13 -> {13, 15, 16, 18, 22, 27}
            [] a = 14 -> {14, 15, 16, 17, 18, 19, 20, 21, 22, 25, 26, 27}
            [] a = 15 -> {15, 16, 17, 18, 20, 21, 22, 26, 27}
            [] a = 16 -> {16, 18, 21, 22, 27}
            [] a = 17 -> {17, 18, 19, 20, 21, 22, 26, 27}
            [] a = 18 -> {18, 20, 21, 22, 27}
            [] a = 19 -> {19, 20, 21, 22, 24, 25, 26, 27, 30}
            [] a = 20 -> {20, 21, 22, 25, 26, 27}
            [] a = 21 -> {21, 22, 26, 27}
            [] a = 22 -> {22, 27}
            [] a = 23 -> {23, 24, 25, 26, 27, 28, 29, 30}
            [] a = 24 -> {24, 25, 26, 27, 29, 30}
            [] a = 25 -> {25, 26, 27, 30}
            [] a = 26 -> {26, 27}
            [] a = 27 -> {27}
            [] a = 28 -> {28, 29, 30}
            [] a = 29 -> {29, 30}
            [] a = 30 -> {30}
            [] OTHER -> {}

\* line 41: the swept thresholds, start + i * step for i < length.
thresholds(threshold_min, threshold_max) ==
    LET length == (threshold_max - threshold_min + 1)
                    + (IF arange_rounds_up(threshold_min, threshold_max) THEN 1 ELSE 0)
    IN  [i \in 1..length |-> threshold_min + (i - 1)]

\* ------------------------------------------------------------ evaluation
\* lines 46-49: the four selections at one threshold.
detected(d, threshold) ==
    SelectSeq(d, LAMBDA r : r.Set = "B" /\ abs_gt(r.ZScore, threshold))

true_positives(det) == SelectSeq(det, LAMBDA r : r.IsTrueOutlier = TRUE)

false_positives(det) == SelectSeq(det, LAMBDA r : r.IsTrueOutlier = FALSE)

missed_outliers(d, threshold) ==
    SelectSeq(d, LAMBDA r : r.Set = "B" /\ r.IsTrueOutlier
                            /\ abs_le(r.ZScore, threshold))

\* lines 50-55: the entry of the results dict for one threshold.
results_entry(d, threshold) ==
    LET det == detected(d, threshold)
    IN  [threshold |-> threshold,
         total |-> Len(det),
         true_positives |-> Len(true_positives(det)),
         false_positives |-> Len(false_positives(det)),
         missed |-> Len(missed_outliers(d, threshold))]

\* lines 56-62: the row appended to export_results for one threshold.
export_row(d, threshold) ==
    LET det == detected(d, threshold)
    IN  [Threshold |-> threshold,
         Detected |-> Len(det),
         TruePositives |-> Len(true_positives(det)),
         FalsePositives |-> Len(false_positives(det)),
         MissedOutliers |-> Len(missed_outliers(d, threshold))]

\* lines 42, 45-55: results = {} filled in the order of the loop (a dict keeps
\* insertion order; the thresholds are distinct keys).
RECURSIVE results_loop(_, _, _)
results_loop(d, ths, acc) ==
    IF ths = <<>> THEN acc
    ELSE results_loop(d, Tail(ths), Append(acc, results_entry(d, Head(ths))))

results(d, ths) == results_loop(d, ths, <<>>)

\* lines 43, 45, 56-62: export_results = [] and one append per threshold.
RECURSIVE export_loop(_, _, _)
export_loop(d, ths, acc) ==
    IF ths = <<>> THEN acc
    ELSE export_loop(d, Tail(ths), Append(acc, export_row(d, Head(ths))))

new_export_results_no_reset(d, ths, previous) == export_loop(d, ths, previous)

new_export_results(d, ths, previous) == export_loop(d, ths, <<>>)

\* line 65: min(results.items(), key = |total - target|)[0]; Python's min keeps
\* the first item among those with the smallest key.
selection_key(item, target_anomalies) == Abs(item.total - target_anomalies)

keeps_best_strict(best, item, target_anomalies) ==
    selection_key(item, target_anomalies) > selection_key(best, target_anomalies)

keeps_best(best, item, target_anomalies) ==
    selection_key(item, target_anomalies) >= selection_key(best, target_anomalies)

RECURSIVE py_min(_, _, _)
py_min(items, best, target_anomalies) ==
    IF items = <<>> THEN best
    ELSE py_min(Tail(items),
                IF keeps_best(best, Head(items), target_anomalies)
                THEN best ELSE Head(items),
                target_anomalies)

closest_threshold(res, target_anomalies) ==
    py_min(Tail(res), Head(res), target_anomalies).threshold

\* lines 78-86: the markers of the plot, both taken at threshold_min.
plot(d, threshold_min) ==
    LET df_b == SelectSeq(d, LAMBDA r : r.Set = "B")
        detected_anomalies == SelectSeq(df_b, LAMBDA r : abs_gt(r.ZScore, threshold_min))
        missed == SelectSeq(df_b, LAMBDA r : r.IsTrueOutlier
                                             /\ abs_le(r.ZScore, threshold_min))
    IN  [detected |-> {detected_anomalies[i].Label : i \in 1..Len(detected_anomalies)},
         missed |-> {missed[i].Label : i \in 1..Len(missed)}]

\* ------------------------------------------------------------------ state
\* out is what the last call displayed: kind is "none" (nothing yet),
\* "summary" (the table of lines 66-72, with the rows in bold, and the plot of
\* lines 75-107), "min_gt_max" (the message of line 38), "no_results" (the
\* message of line 114) or "download" (lines 116-121).  target is the value of
\* the target slider a summary was computed for.
NoOutput ==
    [kind |-> "none", table |-> <<>>, bold |-> {}, target |-> 0, plotted |-> FALSE,
     markers |-> [detected |-> {}, missed |-> {}], csv |-> <<>>]

\* last_sweep records the arguments of the latest call of analyze_thresholds
\* that passed the check of line 37 (history, not read by the program).
NoSweep == [run |-> FALSE, threshold_min |-> 0, threshold_max |-> 0]

Init ==
    /\ \E set_a_values \in ASets,
          set_b_normal \in BNormalSets,
          set_b_outliers \in [1..NumOutliers -> BValues] :
            df = with_z_score(data(set_a_values, set_b_normal, set_b_outliers))
    /\ export_results = <<>>
    /\ out = NoOutput
    /\ last_sweep = NoSweep

analyze_thresholds_reset_first(threshold_min, threshold_max, target_anomalies) ==
    IF threshold_min > threshold_max
    THEN /\ out' = [NoOutput EXCEPT !.kind = "min_gt_max"]
         /\ export_results' = <<>>
         /\ UNCHANGED <<df, last_sweep>>
    ELSE LET ths == thresholds(threshold_min, threshold_max)
             res == results(df, ths)
         IN  /\ export_results' = new_export_results(df, ths, export_results)
             /\ out' = [NoOutput EXCEPT
                          !.kind = "summary",
                          !.table = res,
                          !.bold = {closest_threshold(res, target_anomalies)},
                          !.target = target_anomalies,
                          !.plotted = TRUE,
                          !.markers = plot(df, threshold_min)]
             /\ last_sweep' = [run |-> TRUE, threshold_min |-> threshold_min,
                               threshold_max |-> threshold_max]
             /\ UNCHANGED df

\* lines 35-107.
analyze_thresholds(threshold_min, threshold_max, target_anomalies) ==
    IF threshold_min > threshold_max
    THEN /\ out' = [NoOutput EXCEPT !.kind = "min_gt_max"]
         /\ UNCHANGED <<df, export_results, last_sweep>>
    ELSE LET ths == thresholds(threshold_min, threshold_max)
             res == results(df, ths)
         IN  /\ export_results' = new_export_results(df, ths, export_results)
             /\ out' = [NoOutput EXCEPT
                          !.kind = "summary",
                          !.table = res,
                          !.bold = {closest_threshold(res, target_anomalies)},
                          !.target = target_anomalies,
                          !.plotted = TRUE,
                          !.markers = plot(df, threshold_min)]
             /\ last_sweep' = [run |-> TRUE, threshold_min |-> threshold_min,
                               threshold_max |-> threshold_max]
             /\ UNCHANGED df

export_csv_callback_unchecked ==
    /\ out' = [NoOutput EXCEPT !.kind = "download", !.csv = export_results]
    /\ UNCHANGED <<df, export_results, last_sweep>>

\* lines 112-121.
export_csv_callback ==
    /\ IF export_results = <<>>
       THEN out' = [NoOutput EXCEPT !.kind = "no_results"]
       ELSE out' = [NoOutput EXCEPT !.kind = "download", !.csv = export_results]
    /\ UNCHANGED <<df, export_results, last_sweep>>

Analyze ==
    \E threshold_min \in ThresholdInputs, threshold_max \in ThresholdInputs,
       target_anomalies \in TargetInputs :
        analyze_thresholds(threshold_min, threshold_max, target_anomalies)

Export == export_csv_callback

Next == Analyze \/ Export

Spec == Init /\ [][Next]_vars

\* ============================================================ properties
\* The observations of Set B, and the ground truth among them.
SetB == {i \in 1..Len(df) : df[i].Set = "B"}

TrueOutliers == {i \in SetB : df[i].IsTrueOutlier}

\* |Z| compared with the threshold k / 10 in exact arithmetic.
Finite(i) == df[i].ZScore.kind = "finite"

AbsEquals(i, k) ==
    /\ Finite(i)
    /\ k >= 0
    /\ 100 * df[i].ZScore.sqnum = k * k * df[i].ZScore.sqden

AbsAbove(i, k) ==
    \/ df[i].ZScore.kind = "inf"
    \/ /\ Finite(i)
       /\ k < 0 \/ 100 * df[i].ZScore.sqnum > k * k * df[i].ZScore.sqden

Rows == 1..Len(export_results)

DegenerateReference == std(df).sqnum = 0

\* C1: in every row of a sweep of thresholds >= 0, Detected = TruePositives +
\* FalsePositives and TruePositives + MissedOutliers = the number of true
\* outliers of Set B, whatever the dataset.
C1_CountsPartition ==
    (last_sweep.run /\ last_sweep.threshold_min >= 0) =>
        \A r \in Rows :
            /\ export_results[r].Detected
                 = export_results[r].TruePositives + export_results[r].FalsePositives
            /\ export_results[r].TruePositives + export_results[r].MissedOutliers
                 = Cardinality(TrueOutliers)

\* The equalities of C1 hold at every threshold when the Z-scores of Set B
\* are all numbers.
CountsPartitionOfFiniteScores ==
    (\A i \in SetB : Finite(i)) =>
        \A r \in Rows :
            /\ export_results[r].Detected
                 = export_results[r].TruePositives + export_results[r].FalsePositives
            /\ export_results[r].TruePositives + export_results[r].MissedOutliers
                 = Cardinality(TrueOutliers)

\* C2: the threshold a summary marks as best is a swept threshold whose total
\* is nearest the target, and the first such in ascending order.
C2_BestIsFirstNearest ==
    out.kind = "summary" =>
        \E b \in 1..Len(out.table) :
            /\ out.bold = {out.table[b].threshold}
            /\ \A j \in 1..Len(out.table) :
                   Abs(out.table[b].total - out.target)
                     <= Abs(out.table[j].total - out.target)
            /\ \A j \in 1..(b - 1) :
                   /\ Abs(out.table[j].total - out.target)
                        > Abs(out.table[b].total - out.target)
                   /\ out.table[j].threshold < out.table[b].threshold

\* A summary where a later threshold ties with the best one.
C2_Witness ==
    /\ out.kind = "summary"
    /\ \E b \in 1..Len(out.table), j \in 1..Len(out.table) :
          /\ out.bold = {out.table[b].threshold}
          /\ j > b
          /\ Abs(out.table[j].total - out.target) = Abs(out.table[b].total - out.target)
          /\ \E k \in 1..Len(out.table) :
                Abs(out.table[k].total - out.target) > Abs(out.table[b].total - out.target)

\* C3: the rows of a sweep with 0 <= threshold_min <= threshold_max are
\* exactly those of threshold_min, threshold_min + step, ..., threshold_max:
\* one each, ascending, none above threshold_max.
C3_RowsAreMinToMax ==
    (last_sweep.run /\ last_sweep.threshold_min >= 0) =>
        /\ Len(export_results) = last_sweep.threshold_max - last_sweep.threshold_min + 1
        /\ \A r \in Rows : export_results[r].Threshold = last_sweep.threshold_min + (r - 1)
        /\ \A r \in Rows : export_results[r].Threshold <= last_sweep.threshold_max

\* C4: a call with threshold_min > threshold_max shows the range error and
\* nothing else: no table, no best threshold, no plot, and export_results stays
\* as it was.
C4_InvalidRangeNoOutput ==
    [][\A a \in ThresholdInputs, b \in ThresholdInputs, t \in TargetInputs :
          (a > b /\ analyze_thresholds(a, b, t)) =>
              /\ out'.kind = "min_gt_max"
              /\ out'.table = <<>>
              /\ out'.bold = {}
              /\ ~out'.plotted
              /\ out'.markers = NoOutput.markers
              /\ export_results' = export_results
              /\ last_sweep' = last_sweep]_vars

\* A rejected call after a sweep: the earlier rows are still stored.
C4_Witness ==
    /\ out.kind = "min_gt_max"
    /\ last_sweep.run
    /\ Len(export_results) >= 2

\* C5: while no sweep has passed the range check, an export request shows the
\* no-results message and exports nothing.
C5_NoResultsToExport ==
    [][(~last_sweep.run /\ export_csv_callback) =>
          /\ out'.kind = "no_results"
          /\ out'.csv = <<>>
          /\ export_results' = <<>>]_vars

\* An export request answered with the message, no sweep having run.
C5_Witness ==
    /\ ~last_sweep.run
    /\ out.kind = "no_results"
    /\ export_results = <<>>

\* C6: along the rows of a sweep, in ascending threshold order, Detected never
\* increases and MissedOutliers never decreases.
C6_DetectedMonotone ==
    \A r \in Rows, q \in Rows :
        export_results[r].Threshold < export_results[q].Threshold =>
            /\ export_results[q].Detected <= export_results[r].Detected
            /\ export_results[q].MissedOutliers >= export_results[r].MissedOutliers

\* A sweep whose detected count drops and whose missed count rises.
C6_Witness ==
    \E r \in Rows, q \in Rows :
        /\ export_results[r].Threshold < export_results[q].Threshold
        /\ export_results[q].Detected < export_results[r].Detected
        /\ export_results[q].MissedOutliers > export_results[r].MissedOutliers

\* C7: at each threshold the detected are the Set B observations with
\* |Z| > threshold, strictly: a true outlier of Set B with |Z| = threshold is
\* among the missed; Set A is counted nowhere.
C7_StrictComparison ==
    \A r \in Rows :
        LET k == export_results[r].Threshold
            above == {i \in SetB : AbsAbove(i, k)}
            boundary == {i \in TrueOutliers : AbsEquals(i, k)}
        IN  /\ export_results[r].Detected = Cardinality(above)
            /\ export_results[r].TruePositives = Cardinality(above \cap TrueOutliers)
            /\ export_results[r].FalsePositives = Cardinality(above \ TrueOutliers)
            /\ export_results[r].MissedOutliers
                 = Cardinality({i \in TrueOutliers : Finite(i) /\ ~AbsAbove(i, k)})
            /\ boundary \subseteq {i \in TrueOutliers : Finite(i) /\ ~AbsAbove(i, k)}
            /\ boundary \cap above = {}

\* A row whose threshold equals the |Z| of a true outlier, counted as missed,
\* while a Set A observation lies above the threshold.
C7_Witness ==
    \E r \in Rows :
        LET k == export_results[r].Threshold
        IN  /\ k > 0
            /\ \E i \in TrueOutliers : AbsEquals(i, k)
            /\ export_results[r].MissedOutliers >= 1
            /\ \E i \in 1..Len(df) : df[i].Set = "A" /\ AbsAbove(i, k)
            /\ export_results[r].Detected < Cardinality(SetB)

\* C8: no row is ever produced for a negative threshold.
C8_NoNegativeThreshold ==
    \A r \in Rows : export_results[r].Threshold >= 0

\* C9: with a Set A whose standard deviation is zero no sweep of thresholds
\* >= 0 ever computes a row.
C9_DegenerateReferenceRejected ==
    (DegenerateReference /\ last_sweep.run /\ last_sweep.threshold_min >= 0) =>
        export_results = <<>>

\* C10: export_results holds exactly the rows of the latest sweep that passed
\* the range check: none before the first, then one row per swept threshold
\* from threshold_min upwards, each with the counts of the dataset at its
\* threshold, equal to the table the sweep displayed; an export leaves them.
C10_StoredRowsAreLastSweep ==
    /\ ~last_sweep.run => export_results = <<>>
    /\ last_sweep.run =>
          /\ Len(export_results) >= last_sweep.threshold_max - last_sweep.threshold_min + 1
          /\ Len(export_results) <= last_sweep.threshold_max - last_sweep.threshold_min + 2
          /\ \A r \in Rows :
                LET k == last_sweep.threshold_min + (r - 1)
                    above == {i \in SetB : AbsAbove(i, k)}
                IN  /\ export_results[r].Threshold = k
                    /\ export_results[r].Detected = Cardinality(above)
                    /\ export_results[r].TruePositives = Cardinality(above \cap TrueOutliers)
                    /\ export_results[r].FalsePositives = Cardinality(above \ TrueOutliers)
                    /\ export_results[r].MissedOutliers
                         = Cardinality({i \in TrueOutliers : Finite(i) /\ ~AbsAbove(i, k)})
    /\ out.kind = "summary" =>
          /\ Len(out.table) = Len(export_results)
          /\ \A r \in Rows :
                /\ out.table[r].threshold = export_results[r].Threshold
                /\ out.table[r].total = export_results[r].Detected
                /\ out.table[r].true_positives = export_results[r].TruePositives
                /\ out.table[r].false_positives = export_results[r].FalsePositives
                /\ out.table[r].missed = export_results[r].MissedOutliers
    /\ out.kind = "download" => out.csv = export_results

\* An export of the rows of a sweep, which are still stored.
C10_Witness ==
    /\ out.kind = "download"
    /\ last_sweep.run
    /\ Len(export_results) >= 2
    /\ out.csv = export_results

====
